---------------------------- MODULE Spec2Model ----------------------------
(***************************************************************************)
(* A model of the Enron e-mail parser: the group identity resolver         *)
(* (group_pipeline/pipeline.py), the user identity resolver                *)
(* (user_pipeline/pipeline.py), and the parallel parse of thread files     *)
(* against the shared message cache (main.py, email_pipeline/pipeline.py). *)
(*                                                                         *)
(* Strings are sequences of one-character strings, so that lower(),        *)
(* strip(), split() and the regular expressions of the source are          *)
(* computed character by character.  A content hash (md5) is modelled by   *)
(* a digest that records the hashed text: equal texts have equal hashes    *)
(* and no two different texts of the model collide.                        *)
(***************************************************************************)
EXTENDS Integers, Sequences, FiniteSets, TLC

VARIABLES
    \* GroupPipeline
    group_cache,      \* self.group_cache : frozenset of user ids -> group id
    group_counter,    \* self.counter (itertools.count): the next value it yields
    g_ncalls,         \* number of get_group_id calls made so far
    g_last,           \* the last get_group_id call: its argument and its result
    g_first,          \* history: the first get_group_id call
    g_returned,       \* history: <<member set, result>> of every call made
    \* UserPipeline
    users,            \* self.users : user id -> UserProfile
    alias_lookup,     \* self.alias_lookup : alias -> user id
    user_counter,     \* self.counter (itertools.count): the next value it yields
    u_ncalls,         \* number of resolver calls made so far
    u_last,           \* the last resolver call (argument, result, what it did)
    u_prev,           \* the resolver call before the last one
    u_resolved,       \* history: <<alias, id>> of every single-alias resolve
    \* main.run: the pool of workers and the shared caches
    files,            \* file_paths: the canonical text of each input file
    file_cache,       \* manager.dict(): hashes of the files seen
    message_cache,    \* manager.dict(): message hash -> timezone
    lock,             \* manager.Lock(): the worker holding it, or 0
    next_file,        \* imap_unordered: first file not yet handed to a worker
    workers,          \* per worker: where it is in process_single_file
    results,          \* imap_unordered: per-file results not yet consumed
    \* main.run: the coordinating loop
    c_pc,             \* "run", "crashed" (an exception left run()) or "done"
    c_emails,         \* records of the current result still to be handled
    email_table,      \* rows handed to the EmailBufferManager
    \* postprocessing_pipeline.run_pipeline: the tables it writes
    user_map,         \* user_map_table: <<child_id, parent_id>> rows
    to_delete,        \* to_delete_table: user ids
    user_updated,     \* user_table_updated: user id -> profile
    group_remap,      \* group_remap: <<old_group_id, new_group_id>> rows
    groups_updated,   \* groups_updated: <<group_id, user_ids>> rows
    email_updated,    \* email_table_updated: rows
    matches_1,        \* 1_user_postprocessing.run: matches_dict_1
    matches_2,        \* 1_user_postprocessing.run: matches_dict_2
    results_2,        \* 1_user_postprocessing.run: chunks and their results
    \* history
    h_obtained,       \* parse attempts that returned a ProcessedEmail
    h_passed,         \* files that passed the file cache and were parsed
    h_child           \* child parse attempts that went past the cache check

gvars == <<group_cache, group_counter, g_ncalls, g_last, g_first, g_returned>>
uvars == <<users, alias_lookup, user_counter, u_ncalls, u_last, u_prev, u_resolved>>

pvars == <<files, file_cache, message_cache, lock, next_file, workers, results,
           h_obtained, h_passed, h_child>>
cvars == <<c_pc, c_emails, email_table>>
ovars == <<user_map, to_delete, user_updated, group_remap, groups_updated,
           email_updated, matches_1, matches_2, results_2>>

vars == <<gvars, uvars, pvars, cvars, ovars>>

-----------------------------------------------------------------------------
(* Generic helpers *)

Range(s) == {s[i] : i \in 1..Len(s)}

\* All sequences over S of length at most n.
SeqsUpTo(S, n) == UNION {[1..k -> S] : k \in 0..n}

\* A Python dict d with d[key] = val executed on it.
DictSet(d, key, val) ==
    [k \in (DOMAIN d) \cup {key} |-> IF k = key THEN val ELSE d[k]]

EmptyDict == [k \in {} |-> 0]

-----------------------------------------------------------------------------
(* Group Identity Resolver: group_pipeline/pipeline.py *)

\* Bounds of the group resolver's inputs.
MaxUserId == 1          \* user ids offered to get_group_id are -1..MaxUserId
MaxMembers == 2         \* size of the set handed to get_group_id
MaxGroupCalls == 3      \* number of get_group_id calls in a run

NO_ID == -1             \* the sentinel "no identity" / "no group"

\* The argument of get_group_id is a Python set, met in the order in which
\* it is iterated: a sequence of ids without repetition.
GroupInputs ==
    {ids \in SeqsUpTo(NO_ID..MaxUserId, MaxMembers) :
        \A i, j \in 1..Len(ids) : ids[i] = ids[j] => i = j}

\* The member set of an argument of get_group_id: its ids other than -1.
MemberSet(ids) == {ids[i] : i \in 1..Len(ids)} \ {-1}

\* Mutants of FilterUsers.
FilterUsers_keepSentinel(ids) == Range(ids)
FilterUsers_ordered(ids) == SelectSeq(ids, LAMBDA u : u # NO_ID)

\* line 44: _users = frozenset({user for user in users if user != -1})
\* The argument is given as the sequence in which it is iterated.
FilterUsers(ids) == {u \in Range(ids) : u # NO_ID}

\* Mutant of NextGroupId: the counter is not advanced.
NextGroupId_stuck(counter) == [id |-> counter, counter |-> counter]

\* line 49: id = next(self.counter)
NextGroupId(counter) == [id |-> counter, counter |-> counter + 1]

\* lines 44-51: the whole of get_group_id, as a function of the resolver's
\* state: the new cache, the new counter and the value returned.
get_group_id(cache, counter, ids) ==
    LET _users == FilterUsers(ids) IN
    IF _users = FilterUsers(<<>>)
    THEN [group_cache |-> cache, counter |-> counter, ret |-> NO_ID]
    ELSE IF _users \in DOMAIN cache
    THEN [group_cache |-> cache, counter |-> counter, ret |-> cache[_users]]
    ELSE LET n == NextGroupId(counter) IN
         [group_cache |-> DictSet(cache, _users, n.id),
          counter |-> n.counter, ret |-> n.id]

GroupInit ==
    /\ group_cache = EmptyDict
    /\ group_counter = 0
    /\ g_ncalls = 0
    /\ g_last = [users |-> <<>>, ret |-> NO_ID]
    /\ g_first = [users |-> <<>>, ret |-> NO_ID]
    /\ g_returned = {}

\* One call of GroupPipeline.get_group_id.
GetGroupId ==
    \E ids \in GroupInputs :
        LET r == get_group_id(group_cache, group_counter, ids) IN
        /\ g_ncalls < MaxGroupCalls
        /\ group_cache' = r.group_cache
        /\ group_counter' = r.counter
        /\ g_ncalls' = g_ncalls + 1
        /\ g_last' = [users |-> ids, ret |-> r.ret]
        /\ g_first' = IF g_ncalls = 0 THEN [users |-> ids, ret |-> r.ret]
                                      ELSE g_first
        /\ g_returned' = g_returned \cup {<<MemberSet(ids), r.ret>>}

-----------------------------------------------------------------------------
(* Strings, character by character *)

UpperCase == <<"A","B","C","D","E","F","G","H","I","J","K","L","M",
               "N","O","P","Q","R","S","T","U","V","W","X","Y","Z">>
LowerCase == <<"a","b","c","d","e","f","g","h","i","j","k","l","m",
               "n","o","p","q","r","s","t","u","v","w","x","y","z">>
Digits == {"0","1","2","3","4","5","6","7","8","9"}

Letters == Range(UpperCase) \cup Range(LowerCase)
WordChars == Letters \cup Digits \cup {"_"}
Spaces == {" ", "\t", "\n", "\r"}

IsSpace(c) == c \in Spaces
IsLetter(c) == c \in Letters        \* [a-zA-Z]
IsWordChar(c) == c \in WordChars    \* \w

\* Mutant of LowerChar: the case is kept.
LowerChar_keep(c) == c

\* The lower-case letter of each upper-case letter.
LowerOf == [c \in Range(UpperCase) |->
               LowerCase[CHOOSE i \in 1..Len(UpperCase) : UpperCase[i] = c]]

LowerChar(c) == IF c \in DOMAIN LowerOf THEN LowerOf[c] ELSE c

\* str.lower()
Lower(s) == [i \in 1..Len(s) |-> LowerChar(s[i])]

RECURSIVE LStrip(_)
LStrip(s) == IF s # <<>> /\ IsSpace(Head(s)) THEN LStrip(Tail(s)) ELSE s

RECURSIVE RStrip(_)
RStrip(s) ==
    IF s # <<>> /\ IsSpace(s[Len(s)]) THEN RStrip(SubSeq(s, 1, Len(s) - 1)) ELSE s

\* str.strip()
Strip(s) == RStrip(LStrip(s))

\* str.count(c) for a single character c
CountChar(s, c) == Cardinality({i \in 1..Len(s) : s[i] = c})

\* sub in s (substring test)
Contains(s, sub) ==
    \E i \in 1..(Len(s) - Len(sub) + 1) : SubSeq(s, i, i + Len(sub) - 1) = sub

\* str.split(sep) for a non-empty separator: the list of the pieces.
RECURSIVE SplitFrom(_, _, _)
SplitFrom(s, sep, piece) ==
    IF ~Contains(s, sep) THEN <<piece \o s>>
    ELSE LET i == CHOOSE k \in 1..(Len(s) - Len(sep) + 1) :
                      /\ SubSeq(s, k, k + Len(sep) - 1) = sep
                      /\ \A m \in 1..(k - 1) : SubSeq(s, m, m + Len(sep) - 1) # sep
         IN  <<piece \o SubSeq(s, 1, i - 1)>>
             \o SplitFrom(SubSeq(s, i + Len(sep), Len(s)), sep, <<>>)

Split(s, sep) == SplitFrom(s, sep, <<>>)

\* re.sub(r'[^a-zA-Z]', '', s)
OnlyLetters(s) == SelectSeq(s, IsLetter)

\* re.sub(r"<[^>]+>", "", s): every "<", one or more characters other than
\* ">", and the ">" that follows them, is removed, leftmost first.
RECURSIVE StripAngles(_)
StripAngles(s) ==
    IF \A i \in 1..Len(s) : s[i] # "<" THEN s
    ELSE IF /\ Head(s) = "<"
            /\ Len(s) >= 3
            /\ s[2] # ">"
            /\ \E j \in 3..Len(s) : s[j] = ">"
    THEN LET j == CHOOSE k \in 3..Len(s) :
                      s[k] = ">" /\ \A m \in 3..(k - 1) : s[m] # ">"
         IN  StripAngles(SubSeq(s, j + 1, Len(s)))
    ELSE <<Head(s)>> \o StripAngles(Tail(s))

-----------------------------------------------------------------------------
(* User Identity Resolver: user_pipeline/pipeline.py, _helpers.py *)

ENRON_DOMAIN == <<"e","n","r","o","n",".","c","o","m">>
AT_ENRON == <<"@">> \o ENRON_DOMAIN

\* Mutant of _generate_aliases: the aliases of the initial are always left out.
_generate_aliases_noInitial(first_name, last_name, initial) ==
    IF first_name = <<>> \/ last_name = <<>> THEN {}
    ELSE {first_name \o <<".">> \o last_name \o AT_ENRON,
          <<first_name[1]>> \o last_name \o AT_ENRON}

\* user_pipeline/_helpers.py, _generate_aliases
_generate_aliases(first_name, last_name, initial) ==
    IF first_name = <<>> \/ last_name = <<>> THEN {}
    ELSE {first_name \o <<".">> \o last_name \o AT_ENRON,
          <<first_name[1]>> \o last_name \o AT_ENRON}
         \cup
         (IF initial # <<>>
          THEN {first_name \o <<".">> \o initial \o <<".">> \o last_name \o AT_ENRON,
                initial \o <<".", ".">> \o last_name \o AT_ENRON}
          ELSE {})

NoParse == [first_name |-> <<>>, last_name |-> <<>>, initial |-> <<>>]

\* lines 70-85 of _parse_alias: the e-mail grammar.  NoParse when the alias
\* is not first.last@enron.com or first.i.last@enron.com.
ParseEmailAlias(alias) ==
    IF /\ CountChar(alias, "@") = 1
       /\ \A i \in 1..Len(alias) :
              alias[i] = "@" \/ alias[i] = "." \/ IsWordChar(alias[i])
    THEN LET at == CHOOSE i \in 1..Len(alias) : alias[i] = "@"
             name_part == SubSeq(alias, 1, at - 1)
             domain_part == SubSeq(alias, at + 1, Len(alias))
             parts == Split(name_part, <<".">>)
         IN  IF /\ name_part # <<>>
                /\ domain_part = ENRON_DOMAIN
                /\ ~Contains(name_part, <<".", ".">>)
             THEN IF /\ CountChar(name_part, ".") = 1
                     /\ parts[1] # <<>> /\ parts[2] # <<>>
                  THEN [first_name |-> parts[1], last_name |-> parts[2],
                        initial |-> <<>>]
                  ELSE IF /\ CountChar(name_part, ".") = 2
                          /\ parts[1] # <<>> /\ Len(parts[2]) = 1
                          /\ parts[3] # <<>>
                  THEN [first_name |-> parts[1], last_name |-> parts[3],
                        initial |-> parts[2]]
                  ELSE NoParse
             ELSE NoParse
    ELSE NoParse

\* lines 87-107 of _parse_alias: the "last, first [initial]" grammar.
ParseNameAlias(alias) ==
    LET split == Split(StripAngles(alias), <<",", " ">>) IN
    IF Len(split) # 2 THEN NoParse
    ELSE IF Strip(split[1]) = <<>> \/ Strip(split[2]) = <<>> THEN NoParse
    ELSE LET first_name_spaces == Split(split[2], <<" ">>)
             first_name == OnlyLetters(Strip(first_name_spaces[1]))
             initial == IF Len(first_name_spaces) > 1
                        THEN OnlyLetters(Strip(first_name_spaces[2]))
                        ELSE <<>>
             last_name == OnlyLetters(split[1])
         IN  IF first_name # <<>> /\ last_name # <<>>
             THEN [first_name |-> first_name, last_name |-> last_name,
                   initial |-> initial]
             ELSE NoParse

\* UserPipeline._parse_alias: the e-mail grammar first, then the name grammar.
\* An empty dict and a dict of empty names are read alike by the callers.
_parse_alias(alias) ==
    IF ParseEmailAlias(alias) # NoParse
    THEN ParseEmailAlias(alias)
    ELSE ParseNameAlias(alias)

\* The aliases offered to the resolver.
A_jdoe == <<"j","d","o","e">> \o AT_ENRON                       \* jdoe@enron.com
A_DoeJohn == <<"D","o","e",","," ","J","o","h","n">>            \* Doe, John
A_j_doe == <<"j",".","d","o","e">> \o AT_ENRON                  \* j.doe@enron.com
A_doe_john_q == <<"d","o","e",","," ","j","o","h","n"," ","q">> \* doe, john q
A_blank == <<" ">>
A_empty == <<>>

UserAliases == {A_jdoe, A_DoeJohn, A_j_doe, A_doe_john_q, A_blank, A_empty}

\* alias.lower().strip(), computed once for each alias of the model and on
\* demand for any other string.
NormalizeTable == [a \in UserAliases |-> Strip(Lower(a))]
Normalize(alias) ==
    IF alias \in DOMAIN NormalizeTable THEN NormalizeTable[alias]
    ELSE Strip(Lower(alias))

\* self._parse_alias(alias), computed once for each normalized alias of the
\* model and on demand for any other string.
ParseTable == [a \in {Normalize(b) : b \in UserAliases} |-> _parse_alias(a)]
ParsedInfo(alias) ==
    IF alias \in DOMAIN ParseTable THEN ParseTable[alias] ELSE _parse_alias(alias)

\* line 121-129 of _create_user: the aliases of a new profile.
\* Mutant: the generated aliases are left out of the profile's aliases.
CreatedAliases_observedOnly(aliases, generated_aliases) == aliases

CreatedAliases(aliases, generated_aliases) == aliases \cup generated_aliases

\* Mutant of CounterAfter: the counter does not advance.
CounterAfter_stuck(counter) == counter

\* line 111: next(self.counter) leaves the counter one higher.
CounterAfter(counter) == counter + 1

\* lines 109-135: _create_user, on the resolver state st =
\* [users, alias_lookup, counter]; the result carries the new state and the
\* id returned.
_create_user(st, aliases, parsed_info) ==
    LET user_id == st.counter
        first_name == Lower(parsed_info.first_name)
        last_name == Lower(parsed_info.last_name)
        initial == Lower(parsed_info.initial)
        generated_aliases ==
            IF first_name # <<>> /\ last_name # <<>>
            THEN _generate_aliases(first_name, last_name, initial)
            ELSE {}
        all_aliases == CreatedAliases(aliases, generated_aliases)
        profile == [id |-> user_id,
                    first_name |-> first_name,
                    last_name |-> last_name,
                    generated_aliases |-> generated_aliases,
                    aliases |-> all_aliases]
    IN  [users |-> DictSet(st.users, user_id, profile),
         alias_lookup |->
             [a \in (DOMAIN st.alias_lookup) \cup all_aliases |->
                 IF a \in all_aliases THEN user_id ELSE st.alias_lookup[a]],
         counter |-> CounterAfter(st.counter),
         ret |-> user_id,
         raised |-> FALSE]

\* Mutant of Enrich: a parsed name always replaces the profile's name.
Enrich_always(profile, parsed_info) == parsed_info.first_name # <<>>

\* line 142: the name is enriched if it is missing and now available.
Enrich(profile, parsed_info) ==
    profile.first_name = <<>> /\ parsed_info.first_name # <<>>

\* lines 137-159: _update_user.
_update_user(st, user_id, new_aliases, parsed_info) ==
    LET profile == st.users[user_id]
        enrich == Enrich(profile, parsed_info)
        generated_aliases ==
            IF enrich
            THEN profile.generated_aliases \cup
                 _generate_aliases(parsed_info.first_name,
                                   parsed_info.last_name, parsed_info.initial)
            ELSE profile.generated_aliases
        all_aliases == profile.aliases \cup new_aliases
        updated == [id |-> profile.id,
                    first_name |-> IF enrich THEN parsed_info.first_name
                                   ELSE profile.first_name,
                    last_name |-> IF enrich THEN parsed_info.last_name
                                  ELSE profile.last_name,
                    generated_aliases |-> generated_aliases,
                    aliases |-> all_aliases]
    IN  [users |-> DictSet(st.users, user_id, updated),
         alias_lookup |->
             [a \in (DOMAIN st.alias_lookup) \cup all_aliases
                        \cup generated_aliases |->
                 IF a \in generated_aliases THEN user_id
                 ELSE IF a \in DOMAIN st.alias_lookup THEN st.alias_lookup[a]
                 ELSE user_id],
         counter |-> st.counter,
         ret |-> user_id,
         raised |-> FALSE]

\* A call that raises ValueError, or returns without touching the state.
Raised(st) == [users |-> st.users, alias_lookup |-> st.alias_lookup,
               counter |-> st.counter, ret |-> NO_ID, raised |-> TRUE]
Returned(st, id) == [users |-> st.users, alias_lookup |-> st.alias_lookup,
                     counter |-> st.counter, ret |-> id, raised |-> FALSE]

\* Mutant of CleanedAliases: the empty string is not filtered out.
CleanedAliases_keepEmpty(aliases) == {Normalize(a) : a \in aliases}

\* line 35: cleaned_aliases = {a.lower().strip() for a in aliases if a}
CleanedAliases(aliases) == {Normalize(a) : a \in {b \in aliases : b # <<>>}}

\* Mutant of FullProfiles: no matched profile counts as complete.
FullProfiles_none(st, matches) == {}

\* lines 45-48: the matched profiles that hold 4 generated aliases.
FullProfiles(st, matches) ==
    {id_ \in matches : Cardinality(st.users[id_].generated_aliases) = 4}

\* lines 30-65: get_user_id_from_set.  The order in which Python walks a set
\* is not fixed, so the call has a set of possible outcomes: one per choice
\* of the matched profile (lines 45-48 and 63) and of the alias whose parse
\* is kept (lines 51-55).
get_user_id_from_set(st, aliases) ==
    LET cleaned_aliases == CleanedAliases(aliases)
        matches == {st.alias_lookup[a] :
                        a \in cleaned_aliases \cap DOMAIN st.alias_lookup}
        full == FullProfiles(st, matches)
        parses == {ParsedInfo(a) : a \in cleaned_aliases} \ {NoParse}
        best_parsed_infos == IF parses = {} THEN {NoParse} ELSE parses
    IN  IF cleaned_aliases = {} THEN {Raised(st)}
        ELSE IF full # {} THEN {Returned(st, id_) : id_ \in full}
        ELSE IF matches = {}
        THEN {_create_user(st, cleaned_aliases, info) :
                  info \in best_parsed_infos}
        ELSE UNION {{_update_user(st, user_id, cleaned_aliases, info) :
                         info \in best_parsed_infos} : user_id \in matches}

\* lines 13-27: get_user_id.
get_user_id(st, alias) ==
    IF alias = <<>> \/ Strip(alias) = <<>> THEN {Raised(st)}
    ELSE IF Normalize(alias) \in DOMAIN st.alias_lookup
    THEN {Returned(st, st.alias_lookup[Normalize(alias)])}
    ELSE get_user_id_from_set(st, {Normalize(alias)})

\* Bounds of the user resolver's inputs.
MaxAliasSet == 2        \* size of the alias set handed to get_user_id_from_set
MaxUserCalls == 3       \* number of resolver calls in a run

AliasSets == {S \in SUBSET UserAliases : Cardinality(S) <= MaxAliasSet}

NoCall == [kind |-> "none", aliases |-> {}, known |-> FALSE, ret |-> NO_ID,
           raised |-> FALSE, created |-> FALSE, allocated |-> FALSE]

ResolverState == [users |-> users, alias_lookup |-> alias_lookup,
                  counter |-> user_counter]

UserInit ==
    /\ users = EmptyDict
    /\ alias_lookup = EmptyDict
    /\ user_counter = 0
    /\ u_ncalls = 0
    /\ u_last = NoCall
    /\ u_prev = NoCall
    /\ u_resolved = {}

\* The resolver moves to outcome o of a call of the given kind on aliases.
ResolverCall(kind, aliases, o) ==
    /\ u_ncalls < MaxUserCalls
    /\ users' = o.users
    /\ alias_lookup' = o.alias_lookup
    /\ user_counter' = o.counter
    /\ u_ncalls' = u_ncalls + 1
    /\ u_prev' = u_last
    /\ u_last' = [kind |-> kind, aliases |-> aliases,
                  known |-> \A a \in aliases :
                                Normalize(a) \in DOMAIN alias_lookup,
                  ret |-> o.ret, raised |-> o.raised,
                  created |-> DOMAIN o.users # DOMAIN users,
                  allocated |-> o.counter # user_counter]
    /\ u_resolved' = IF Cardinality(aliases) = 1 /\ ~o.raised
                     THEN u_resolved \cup {<<a, o.ret>> : a \in aliases}
                     ELSE u_resolved

\* One call of UserPipeline.get_user_id.
GetUserId ==
    \E alias \in UserAliases :
        \E o \in get_user_id(ResolverState, alias) :
            ResolverCall("get_user_id", {alias}, o)

\* One call of UserPipeline.get_user_id_from_set.
GetUserIdFromSet ==
    \E aliases \in AliasSets :
        \E o \in get_user_id_from_set(ResolverState, aliases) :
            ResolverCall("get_user_id_from_set", aliases, o)

-----------------------------------------------------------------------------
(* Thread files *)

\* Bounds of the parallel run.
NumFiles == 2           \* number of input files
NumWorkers == 2         \* processes of the Pool
ChunkSize == 1          \* files per task; stands for chunksize=1000 (main.py:92)

Workers == 1..NumWorkers

NONE == "None"
UTC == 0                \* timezone.utc; a timezone is its UTC offset in hours

\* A date field of a message: the local time written in it (in hours), the
\* numeric UTC offset written in it, or a text dateutil cannot parse, or no
\* date line at all.
DateOk(local, offset) == [kind |-> "ok", local |-> local, offset |-> offset]
DateBad == [kind |-> "bad", local |-> 0, offset |-> 0]
DateNone == [kind |-> "none", local |-> 0, offset |-> 0]

\* The parent segment of a thread, by the fields the regular expressions of
\* _process_parent_email find in it: the text after the X-bcc line (NONE when
\* there is no such line), the Date line, the text between From: and To:,
\* between To: and Subject:, between Cc: and Mime-Version:, and the sender
\* _extract_parent_users finds between X-From: and X-To: ("" when absent).
ParentSeg(body, date, from_text, to_text, cc_text, x_sender) ==
    [body |-> body, date |-> date, from_text |-> from_text,
     to_text |-> to_text, cc_text |-> cc_text, x_sender |-> x_sender]

\* A child segment, by the fields the regular expressions of
\* _process_child_email find in it: the text after its Subject line (NONE
\* when it has none), its Sent/Date line, whether its last line is a From:
\* line, and the alias child_user_filter matches at the start of its To:
\* block ("" when none).
ChildSeg(body, date, from_last, to_alias) ==
    [body |-> body, date |-> date, from_last |-> from_last,
     to_alias |-> to_alias]

\* The canonical text of a file: whether parse_and_canonicalize could read
\* it, and the pieces canon_email.split("-----Original Message-----") yields.
FileText(readable, parent, children) ==
    [readable |-> readable, email_split |-> <<parent>> \o children]

S_x == <<"x">>
S_yz == <<"y", "z">>
S_c_at_d == <<"c", "@", "d">>
S_none == <<>>

\* Two threads with the same parent body, different headers.
T1 == FileText(TRUE,
        ParentSeg("b1", DateOk(10, -7), S_x, S_c_at_d, S_none, S_x), <<>>)
T2 == FileText(TRUE,
        ParentSeg("b1", DateOk(12, -5), S_yz, S_none, S_none, S_yz), <<>>)
\* A thread that quotes b1 and b3 as children; its last segment is cut off.
T3 == FileText(TRUE,
        ParentSeg("b2", DateOk(20, -6), S_x, S_none, S_none, S_x),
        <<ChildSeg("b1", DateOk(9, 0), FALSE, S_none),
          ChildSeg("b3", DateOk(8, 0), FALSE, A_DoeJohn),
          ChildSeg("b4", DateOk(7, 0), FALSE, S_none)>>)
\* A thread whose parent has no sender in either header style.
T4 == FileText(TRUE,
        ParentSeg("b3", DateOk(30, -7), S_none, S_c_at_d, S_none, S_none), <<>>)

\* A thread that quotes b3 under a Sent line dateutil cannot read, and one
\* more message after it.
T5 == FileText(TRUE,
        ParentSeg("b5", DateOk(40, -7), S_x, S_none, S_none, S_x),
        <<ChildSeg("b3", DateBad, FALSE, S_none),
          ChildSeg("b4", DateOk(7, 0), FALSE, S_none)>>)

FileTexts == {T1, T2, T3, T4, T5}

E_ab == <<"a", "b">> \o AT_ENRON                \* ab@enron.com
E_a_b == <<"a", ".", "b">> \o AT_ENRON          \* a.b@enron.com
X35 == [i \in 1..35 |-> "x"]                    \* a name of 35 characters
X36 == [i \in 1..36 |-> "x"]                    \* a name of 36 characters
\* An address of 60 characters, a...b@d.
E60 == <<"a">> \o [i \in 1..56 |-> "x"] \o <<"b", "@", "d">>
E61 == [i \in 1..59 |-> "x"] \o <<"@", "d">>    \* an address of 61 characters

\* Threads without quoted messages, for the runs that follow the tables
\* through the offline stages.
O == <<
    \* O[1]: x writes to a person known by an address that yields no name.
    FileText(TRUE,
        ParentSeg("m1", DateOk(10, -7), S_x, E_ab, S_none, S_x), <<>>),
    \* O[2]: x writes to the same person under the address that yields the
    \* name, too.
    FileText(TRUE,
        ParentSeg("m2", DateOk(11, -7), S_x, E_a_b, E_ab, S_x), <<>>),
    \* O[3]: a sender known by an over-long address alone writes to a
    \* person with a valid address.
    FileText(TRUE,
        ParentSeg("m3", DateOk(12, -7), S_none, E_ab, S_none, E61), <<>>),
    \* O[4]: aliases on both sides of the two length limits.
    FileText(TRUE,
        ParentSeg("m4", DateOk(13, -7), X36, E61, E60, X35), <<>>),
    \* O[5]: the message of O[1] once more, copied to an over-long address.
    FileText(TRUE,
        ParentSeg("m1", DateOk(14, -5), S_x, E_ab, E61, S_x), <<>>),
    \* O[6]: a message whose only person is known by an over-long address.
    FileText(TRUE,
        ParentSeg("m6", DateOk(15, -7), S_none, E61, S_none, E61), <<>>),
    \* O[7]: x, who signs as "b, m q", writes to ax.q.b@enron.com and to
    \* a.b@enron.com.
    FileText(TRUE,
        ParentSeg("m7", DateOk(16, -7), S_x,
                  <<"a", "x", ".", "q", ".", "b">> \o AT_ENRON, E_a_b,
                  <<"b", ",", " ", "m", " ", "q">>), <<>>)>>

OfflineTexts == Range(O)

\* hashlib.md5(text).hexdigest(): a digest is the record tagging the hashed
\* text (see the header of the module); it is never equal to a text.
Md5(text) == [md5 |-> text]

-----------------------------------------------------------------------------
(* email_pipeline/_helpers.py *)

\* Mutant of ParentDate: the date keeps the offset written in it.
ParentDate_keepOffset(d) == [inst |-> d.local - d.offset, tz |-> d.offset]

\* _parse_parent_date, line 56: parse(...).astimezone(timezone.utc).  A
\* datetime is the instant (hours, UTC) and its tzinfo.
ParentDate(d) == [inst |-> d.local - d.offset, tz |-> UTC]

\* _parse_parent_date, line 57: normalized_dt_utc
ParentNormDate(d) == [inst |-> ParentDate(d).inst, tz |-> UTC]

\* _parse_child_email_date, lines 76-77: the naive local time, read in the
\* parent's timezone.
ChildDate(d, parent_timezone) ==
    [inst |-> d.local - parent_timezone, tz |-> parent_timezone]

\* _parse_child_email_date, line 78
ChildNormDate(d, parent_timezone) ==
    [inst |-> ChildDate(d, parent_timezone).inst, tz |-> UTC]

\* non_x_filter, r"\s*([^,]+@[^,]+)(?=\s*,|$)", searched in a header block
\* that holds no comma and no white space: it matches the whole block when
\* an "@" stands between two other characters, and nothing otherwise.
NonXMatch(text) ==
    IF \E i \in 2..(Len(text) - 1) : text[i] = "@" THEN text ELSE <<>>

\* The strings a Python set gains by aliases.update(s) for a str s: its
\* characters.
CharsOf(text) == {<<text[i]>> : i \in 1..Len(text)}

\* _extract_parent_users with the From/To/Cc boundaries: aliases and sender.
ExtractParentUsers(seg) ==
    LET sender == IF seg.from_text = <<>> THEN <<>>
                  ELSE IF NonXMatch(seg.from_text) # <<>>
                  THEN NonXMatch(seg.from_text) ELSE seg.from_text
        others == {NonXMatch(seg.to_text), NonXMatch(seg.cc_text)} \ {<<>>}
    IN  [aliases |-> CharsOf(sender) \cup others, sender |-> sender]

-----------------------------------------------------------------------------
(* main.process_single_file and EmailPipeline, one worker process *)

\* ProcessedEmail (data_object/processed_email.py)
ProcessedEmail(email_hash, date, norm_date, aliases, sender, parent_hash) ==
    [email_hash |-> email_hash, date |-> date, norm_date |-> norm_date,
     aliases |-> aliases, sender |-> sender, parent_hash |-> parent_hash]

NoEmail == ProcessedEmail(Md5(""), [inst |-> 0, tz |-> UTC], [inst |-> 0, tz |-> UTC],
                          {}, {}, "")

IdleWorker == [pc |-> "idle",        \* position in process_single_file
               queue |-> <<>>,       \* files of its task still to process
               file |-> 0,           \* the file it is processing
               children |-> <<>>,    \* child_emails still to process
               parent_tz |-> UTC,    \* parent_timezone
               parent |-> NoEmail,   \* the parent's record, before its insert
               emails |-> {},        \* processed_emails
               out |-> <<>>]         \* results of the files of its task

\* pool.imap_unordered(worker, file_paths, chunksize): an idle worker takes
\* the next ChunkSize files as one task.
TakeTask(w) ==
    /\ workers[w].pc = "idle"
    /\ next_file <= Len(files)
    /\ LET last == IF next_file + ChunkSize - 1 <= Len(files)
                   THEN next_file + ChunkSize - 1 ELSE Len(files)
       IN  /\ workers' = [workers EXCEPT ![w].pc = "next",
                             ![w].queue = [i \in 1..(last - next_file + 1) |->
                                               next_file + i - 1],
                             ![w].out = <<>>]
           /\ next_file' = last + 1
    /\ UNCHANGED <<files, file_cache, message_cache, lock, results,
                   h_obtained, h_passed, h_child>>

\* What process_single_file returns: None, or the set processed_emails.
NoResult == [none |-> TRUE, emails |-> {}]
Result(emails) == [none |-> FALSE, emails |-> emails]

\* The worker record after process_single_file returned result for the
\* current file (None, or the set of its emails).
Returned_(wk, result) ==
    [wk EXCEPT !.pc = "next", !.file = 0, !.children = <<>>,
               !.parent = NoEmail, !.emails = {}, !.parent_tz = UTC,
               !.out = Append(wk.out, result)]

\* main.py lines 43-48: the next file of the task is read; an unreadable file
\* returns None.  When the task has no file left its results are handed to
\* the coordinating loop.
NextFile(w) ==
    /\ workers[w].pc = "next"
    /\ IF workers[w].queue = <<>>
       THEN /\ results' = results \o workers[w].out
            /\ workers' = [workers EXCEPT ![w] = IdleWorker]
       ELSE LET f == Head(workers[w].queue)
                wk == [workers[w] EXCEPT !.queue = Tail(workers[w].queue),
                                         !.file = f]
            IN  /\ workers' = [workers EXCEPT ![w] =
                       IF files[f].readable
                       THEN [wk EXCEPT !.pc = "file_lock"]
                       ELSE Returned_(wk, NoResult)]
                /\ UNCHANGED results
    /\ UNCHANGED <<files, file_cache, message_cache, lock, next_file,
                   h_obtained, h_passed, h_child>>

\* "with lock:" is entered: the worker waits until the lock is free.
Acquire(w) ==
    /\ workers[w].pc \in {"file_lock", "parent_lock", "insert_lock", "child_lock"}
    /\ lock = 0
    /\ lock' = w
    /\ workers' = [workers EXCEPT ![w].pc =
           CASE workers[w].pc = "file_lock" -> "file_cs"
             [] workers[w].pc = "parent_lock" -> "parent_cs"
             [] workers[w].pc = "insert_lock" -> "insert_cs"
             [] workers[w].pc = "child_lock" -> "child_cs"]
    /\ UNCHANGED <<files, file_cache, message_cache, next_file, results,
                   h_obtained, h_passed, h_child>>

\* Mutant of LockOnExit: a return inside the block leaves the lock held.
LockOnExit_keptOnReturn(w, returns) == IF returns THEN w ELSE 0

\* "with lock:" is left, by reaching the end of the block or by a return
\* inside it: the context manager releases the lock.
LockOnExit(w, returns) == 0

\* email_pipeline/pipeline.py line 37: email_split[1:-1] (and the empty set
\* when the text holds no separator).
ChildEmails(email_split) ==
    IF Len(email_split) <= 1 THEN <<>>
    ELSE SubSeq(email_split, 2, Len(email_split) - 1)

\* Mutant of FileCacheAfter: the file's hash is not stored.
FileCacheAfter_forget(cache, hash_obj) == cache

\* main.py line 56: file_cache[hash_obj] = True
FileCacheAfter(cache, hash_obj) == cache \cup {hash_obj}

\* main.py lines 50-56 and pipeline.py lines 32-64: the file cache is checked
\* and the file's hash inserted under the lock; then, outside the lock, the
\* text is split and the parent's body looked for.
FileCheck(w) ==
    LET wk == workers[w]
        canon_email == files[wk.file]
        hash_obj == Md5(canon_email)
        parent_email == canon_email.email_split[1]
    IN  /\ wk.pc = "file_cs"
        /\ lock = w
        /\ lock' = LockOnExit(w, hash_obj \in file_cache)
        /\ IF hash_obj \in file_cache
           THEN /\ file_cache' = file_cache
                /\ workers' = [workers EXCEPT ![w] = Returned_(wk, NoResult)]
                /\ h_passed' = h_passed
           ELSE /\ file_cache' = FileCacheAfter(file_cache, hash_obj)
                /\ h_passed' = h_passed \cup {wk.file}
                /\ workers' = [workers EXCEPT ![w] =
                       IF parent_email.body = NONE
                       THEN Returned_(wk, NoResult)     \* ValueError, line 60
                       ELSE [wk EXCEPT !.pc = "parent_lock",
                                !.children = ChildEmails(canon_email.email_split)]]
        /\ UNCHANGED <<files, message_cache, next_file, results,
                       h_obtained, h_child>>

\* pipeline.py lines 44-47 and 106-113, up to the next "with lock:": the
\* children that need no look at the cache are passed over.  A child with no
\* Sent/Date line raises ValueError (line 109), a child with no Subject line
\* is skipped (line 113); when no child is left, processed_emails is returned.
RECURSIVE Continue(_)
Continue(wk) ==
    IF wk.children = <<>> THEN Returned_(wk, Result(wk.emails))
    ELSE IF Head(wk.children).date.kind = "none" THEN Returned_(wk, NoResult)
    ELSE IF Head(wk.children).body = NONE
    THEN Continue([wk EXCEPT !.children = Tail(wk.children)])
    ELSE [wk EXCEPT !.pc = "child_lock"]

\* pipeline.py line 80: senders
Senders(sender, x_sender) ==
    IF sender # <<>> THEN {sender, x_sender} ELSE {x_sender}

\* pipeline.py lines 70-90: the record built from a parent segment whose
\* date was read.
ParentRecord(email) ==
    LET found == ExtractParentUsers(email)
    IN  ProcessedEmail(Md5(email.body), ParentDate(email.date),
                       ParentNormDate(email.date),
                       found.aliases \ {<<>>},
                       Senders(found.sender, email.x_sender), "")

\* pipeline.py line 66: if msg_hash in message_cache
CachedParent(cache, msg_hash) == msg_hash \in DOMAIN cache

\* pipeline.py lines 65-91: the first critical section of
\* _process_parent_email tests the cache and is left; a cached parent hands
\* its timezone to the children; otherwise the headers are parsed outside
\* the lock (a missing or unparsable date raises ValueError).
ParentCheck(w) ==
    LET wk == workers[w]
        email == files[wk.file].email_split[1]
        msg_hash == Md5(email.body)
        processed_email == ParentRecord(email)
    IN  /\ wk.pc = "parent_cs"
        /\ lock = w
        /\ lock' = LockOnExit(w, CachedParent(message_cache, msg_hash))
        /\ workers' = [workers EXCEPT ![w] =
               IF CachedParent(message_cache, msg_hash)
               THEN Continue([wk EXCEPT !.parent_tz = message_cache[msg_hash]])
               ELSE IF email.date.kind # "ok"
               THEN Returned_(wk, NoResult)
               ELSE [wk EXCEPT !.pc = "insert_lock",
                               !.parent = processed_email,
                               !.parent_tz = processed_email.date.tz]]
        /\ UNCHANGED <<files, file_cache, message_cache, next_file, results,
                       h_obtained, h_passed, h_child>>

\* pipeline.py lines 92-94 and 41-43: the second critical section stores the
\* parent's timezone, and the record joins processed_emails.
ParentInsert(w) ==
    LET wk == workers[w]
        rec == wk.parent
    IN  /\ wk.pc = "insert_cs"
        /\ lock = w
        /\ lock' = LockOnExit(w, FALSE)
        /\ message_cache' = DictSet(message_cache, rec.email_hash, rec.date.tz)
        /\ h_obtained' = h_obtained \cup
               {[hash |-> rec.email_hash, file |-> wk.file, seg |-> 0]}
        /\ workers' = [workers EXCEPT ![w] =
               Continue([wk EXCEPT !.emails = wk.emails \cup {rec},
                                   !.parent = NoEmail])]
        /\ UNCHANGED <<files, file_cache, next_file, results, h_passed, h_child>>

\* Mutant of ChildCacheAfter: the child's hash is not stored.
ChildCacheAfter_forget(cache, msg_hash, parent_timezone) == cache

\* pipeline.py line 121: message_cache[msg_hash] = parent_timezone
ChildCacheAfter(cache, msg_hash, parent_timezone) ==
    DictSet(cache, msg_hash, parent_timezone)

\* pipeline.py lines 114-147: the critical section of _process_child_email
\* tests the cache and inserts the hash with the parent's timezone; the rest
\* is parsed outside the lock: an unparsable date raises ValueError (line
\* 122), a From: line found by line 124 raises TypeError (line 129, a Match
\* object handed to re.match).  The record has no sender and no parent_hash.
ChildCheck(w) ==
    LET wk == workers[w]
        email == Head(wk.children)
        msg_hash == Md5(email.body)
        seg == Len(ChildEmails(files[wk.file].email_split)) - Len(wk.children) + 1
        rest == [wk EXCEPT !.children = Tail(wk.children)]
        rec == ProcessedEmail(msg_hash,
                              ChildDate(email.date, wk.parent_tz),
                              ChildNormDate(email.date, wk.parent_tz),
                              {email.to_alias} \ {<<>>}, {}, NONE)
    IN  /\ wk.pc = "child_cs"
        /\ lock = w
        /\ lock' = LockOnExit(w, msg_hash \in DOMAIN message_cache)
        /\ IF msg_hash \in DOMAIN message_cache
           THEN /\ workers' = [workers EXCEPT ![w] = Continue(rest)]
                /\ UNCHANGED <<message_cache, h_obtained, h_child>>
           ELSE /\ message_cache' = ChildCacheAfter(message_cache, msg_hash,
                                                    wk.parent_tz)
                /\ h_child' = h_child \cup
                       {[hash |-> msg_hash, file |-> wk.file, seg |-> seg]}
                /\ IF email.date.kind = "bad" \/ email.from_last
                   THEN /\ workers' = [workers EXCEPT ![w] = Returned_(wk, NoResult)]
                        /\ UNCHANGED h_obtained
                   ELSE /\ workers' = [workers EXCEPT ![w] =
                               Continue([rest EXCEPT !.emails = wk.emails \cup {rec}])]
                        /\ h_obtained' = h_obtained \cup
                               {[hash |-> msg_hash, file |-> wk.file, seg |-> seg]}
        /\ UNCHANGED <<files, file_cache, next_file, results, h_passed>>

-----------------------------------------------------------------------------
(* main.run: the coordinating loop, the only caller of the resolvers *)

\* str.replace(" ", ", ")
RECURSIVE SpaceToCommaSpace(_)
SpaceToCommaSpace(s) ==
    IF s = <<>> THEN s
    ELSE (IF Head(s) = " " THEN <<",", " ">> ELSE <<Head(s)>>)
         \o SpaceToCommaSpace(Tail(s))

\* main.py lines 103-113: the strings handed to get_user_id for one alias of
\* a record, in order.
AliasPieces(alias) ==
    IF alias = <<>> \/ Strip(alias) = <<>> THEN <<>>
    ELSE IF CountChar(alias, ",") > 3
    THEN LET pieces == Split(alias, <<",", " ">>) IN
         [i \in 1..Len(pieces) |->
             IF Contains(pieces[i], <<"@">>) THEN pieces[i]
             ELSE SpaceToCommaSpace(pieces[i])]
    ELSE <<alias>>

StateOf(o) == [users |-> o.users, alias_lookup |-> o.alias_lookup,
               counter |-> o.counter]

\* get_user_id on each string of pieces in turn, the ids gathered in ids: the
\* possible outcomes [st, ids, raised].
RECURSIVE ResolvePieces(_, _, _)
ResolvePieces(st, pieces, ids) ==
    IF pieces = <<>> THEN {[st |-> st, ids |-> ids, raised |-> FALSE]}
    ELSE UNION {IF o.raised
                THEN {[st |-> st, ids |-> ids, raised |-> TRUE]}
                ELSE ResolvePieces(StateOf(o), Tail(pieces), ids \cup {o.ret})
                : o \in get_user_id(st, Head(pieces))}

\* main.py line 102: the loop over processed_email.aliases, a set, walked in
\* an order Python does not fix.
RECURSIVE ResolveAliases(_, _, _)
ResolveAliases(st, aliases, ids) ==
    IF aliases = {} THEN {[st |-> st, ids |-> ids, raised |-> FALSE]}
    ELSE UNION {UNION {IF o.raised THEN {o}
                       ELSE ResolveAliases(o.st, aliases \ {alias}, o.ids)
                       : o \in ResolvePieces(st, AliasPieces(alias), ids)}
                : alias \in aliases}

\* A set of ids in the order the caller happens to hold it.
SetToSeq(S) == CHOOSE q \in [1..Cardinality(S) -> S] : Range(q) = S

\* main.py line 116: sender_id
SenderId(st, sender) ==
    IF sender # {} THEN get_user_id_from_set(st, sender)
    ELSE {Returned(st, NO_ID)}

\* A row of the email table (subject, date and norm_date are carried over
\* from the record unchanged).
EmailRow(email_hash, group_id, sender_id) ==
    [email_hash |-> email_hash, group_id |-> group_id, sender_id |-> sender_id]

\* main.py lines 94-99: the next result is taken from the pool; None and the
\* empty set are passed over.
TakeResult ==
    /\ c_pc = "run"
    /\ c_emails = {}
    /\ results # <<>>
    /\ results' = Tail(results)
    /\ c_emails' = Head(results).emails
    /\ UNCHANGED <<files, file_cache, message_cache, lock, next_file, workers,
                   h_obtained, h_passed, h_child, c_pc, email_table, gvars, uvars,
                   ovars>>

\* main.py lines 100-126: one record of the current result is resolved and
\* its row buffered.  A ValueError of the user resolver leaves run().
HandleEmail ==
    /\ c_pc = "run"
    /\ \E processed_email \in c_emails :
       \E a \in ResolveAliases(ResolverState, processed_email.aliases, {}) :
          IF a.raised
          THEN /\ c_pc' = "crashed"
               /\ users' = a.st.users
               /\ alias_lookup' = a.st.alias_lookup
               /\ user_counter' = a.st.counter
               /\ UNCHANGED <<c_emails, email_table, group_cache, group_counter>>
          ELSE LET g == get_group_id(group_cache, group_counter, SetToSeq(a.ids))
               IN  \E o \in SenderId(a.st, processed_email.sender) :
                       /\ users' = o.users
                       /\ alias_lookup' = o.alias_lookup
                       /\ user_counter' = o.counter
                       /\ group_cache' = g.group_cache
                       /\ group_counter' = g.counter
                       /\ IF o.raised
                          THEN /\ c_pc' = "crashed"
                               /\ UNCHANGED <<c_emails, email_table>>
                          ELSE /\ c_pc' = c_pc
                               /\ c_emails' = c_emails \ {processed_email}
                               /\ email_table' = Append(email_table,
                                      EmailRow(processed_email.email_hash,
                                               g.ret, o.ret))
    /\ UNCHANGED <<pvars, ovars, g_ncalls, g_last, g_first, g_returned,
                   u_ncalls, u_last, u_prev, u_resolved>>

\* main.py lines 128-134: every result is consumed; the buffer is flushed and
\* the user and group tables are written.
Flush ==
    /\ c_pc = "run"
    /\ c_emails = {}
    /\ results = <<>>
    /\ next_file > Len(files)
    /\ \A w \in Workers : workers[w].pc = "idle"
    /\ c_pc' = "done"
    /\ UNCHANGED <<pvars, c_emails, email_table, gvars, uvars, ovars>>

-----------------------------------------------------------------------------
(* Offline reconciliation: post_processing/1_user_postprocessing.py *)

\* A Python dict that is walked in insertion order: a sequence of
\* <<key, value>> pairs.
Keys(m) == {m[i][1] : i \in 1..Len(m)}
Put(m, k, v) ==
    IF k \in Keys(m)
    THEN [i \in 1..Len(m) |-> IF m[i][1] = k THEN <<k, v>> ELSE m[i]]
    ELSE Append(m, <<k, v>>)
Get(m, k, default) ==
    IF k \in Keys(m) THEN m[CHOOSE i \in 1..Len(m) : m[i][1] = k][2]
    ELSE default

RECURSIVE PutAll(_, _)
PutAll(m, pairs) ==
    IF pairs = <<>> THEN m
    ELSE PutAll(Put(m, pairs[1][1], pairs[1][2]), Tail(pairs))

Min(S) == CHOOSE x \in S : \A y \in S : x <= y
Max(S) == CHOOSE x \in S : \A y \in S : x >= y

\* The integers of S in increasing order (the row order of a table).
RECURSIVE Sorted(_)
Sorted(S) == IF S = {} THEN <<>> ELSE <<Min(S)>> \o Sorted(S \ {Min(S)})

\* Every order in which the elements of a set can be walked.
RECURSIVE Orders(_)
Orders(S) ==
    IF S = {} THEN {<<>>}
    ELSE UNION {{<<x>> \o q : q \in Orders(S \ {x})} : x \in S}

MAX_EMAIL_ALIAS_LEN == 60
MAX_NAME_ALIAS_LEN == 35

\* Mutant of _filter_invalid_aliases: an alias as long as its limit is dropped.
_filter_invalid_aliases_strict(aliases_set) ==
    {alias \in aliases_set :
        IF Contains(alias, <<"@">>) THEN Len(alias) < MAX_EMAIL_ALIAS_LEN
        ELSE Len(alias) < MAX_NAME_ALIAS_LEN}

\* lines 8-28
_filter_invalid_aliases(aliases_set) ==
    {alias \in aliases_set :
        IF Contains(alias, <<"@">>) THEN Len(alias) <= MAX_EMAIL_ALIAS_LEN
        ELSE Len(alias) <= MAX_NAME_ALIAS_LEN}

Restrict(df, ids) == [id \in ids |-> df[id]]

\* lines 113 and 137: has_name_mask
HasName(row) == row.first_name # <<>> /\ row.last_name # <<>>

\* lines 30-49: _update_df.  The aliases of each child are added to its
\* parent, pair after pair, and then the children's rows are dropped.
RECURSIVE MergeAliases(_, _)
MergeAliases(df, matches_dict) ==
    IF matches_dict = <<>> THEN df
    ELSE LET child_id == matches_dict[1][1]
             parent_id == matches_dict[1][2]
         IN  MergeAliases(
                 [df EXCEPT ![parent_id].aliases = @ \cup df[child_id].aliases],
                 Tail(matches_dict))

\* Mutant of _update_df: the children's rows are dropped without their
\* aliases being added to the parents.
_update_df_dropOnly(user_df, matches_dict) ==
    Restrict(user_df, (DOMAIN user_df) \ Keys(matches_dict))

_update_df(user_df, matches_dict) ==
    IF matches_dict = <<>> THEN user_df
    ELSE Restrict(MergeAliases(user_df, matches_dict),
                  (DOMAIN user_df) \ Keys(matches_dict))

\* lines 116-119: alias_to_id_map; the rows are walked in order, so the last
\* row holding an alias keeps it.
AliasToIdMap(user_df) ==
    [alias \in UNION {user_df[id].aliases : id \in DOMAIN user_df} |->
        Max({id \in DOMAIN user_df : alias \in user_df[id].aliases})]

\* lines 125-129: the generated aliases of one named row, walked in the order
\* gens.
RECURSIVE ClaimChildren(_, _, _, _)
ClaimChildren(matches_dict, alias_to_id_map, user_id, gens) ==
    IF gens = <<>> THEN matches_dict
    ELSE LET gen_alias == Head(gens)
             m == IF /\ gen_alias \in DOMAIN alias_to_id_map
                     /\ alias_to_id_map[gen_alias] # user_id
                  THEN Put(matches_dict, alias_to_id_map[gen_alias], user_id)
                  ELSE matches_dict
         IN  ClaimChildren(m, alias_to_id_map, user_id, Tail(gens))

\* lines 121-129: matches_dict_1.  The generated aliases of a row are a list
\* made from a set, in an order Python does not fix: the possible results.
RECURSIVE Pass1(_, _, _, _)
Pass1(user_df, alias_to_id_map, ids, matches_dict) ==
    IF ids = <<>> THEN {matches_dict}
    ELSE IF Head(ids) \in Keys(matches_dict)
    THEN Pass1(user_df, alias_to_id_map, Tail(ids), matches_dict)
    ELSE UNION {Pass1(user_df, alias_to_id_map, Tail(ids),
                      ClaimChildren(matches_dict, alias_to_id_map, Head(ids), gens))
                : gens \in Orders(user_df[Head(ids)].generated_aliases)}

\* lines 64-67: pattern_1, ^{first_name[0]}{last_name}$, and pattern_2,
\* {first_name}.*{last_name}, searched in an alias.  The names hold word
\* characters only, so they stand for themselves in the patterns.
Pattern1(alias, first_name, last_name) ==
    alias = <<first_name[1]>> \o last_name

Pattern2(alias, first_name, last_name) ==
    \E i \in 1..Len(alias) :
        /\ i + Len(first_name) - 1 <= Len(alias)
        /\ SubSeq(alias, i, i + Len(first_name) - 1) = first_name
        /\ \E j \in (i + Len(first_name))..Len(alias) :
               /\ j + Len(last_name) - 1 <= Len(alias)
               /\ SubSeq(alias, j, j + Len(last_name) - 1) = last_name

\* lines 74-78: the first named row one of whose patterns finds the alias
\* (NO_ID when none does).
FirstParent(alias, name_df) ==
    LET hits == {parent_id \in DOMAIN name_df :
                    \/ Pattern1(alias, name_df[parent_id].first_name,
                                name_df[parent_id].last_name)
                    \/ Pattern2(alias, name_df[parent_id].first_name,
                                name_df[parent_id].last_name)}
    IN  IF hits = {} THEN NO_ID ELSE Min(hits)

\* lines 52-81: _match_worker on one chunk of nameless rows.  The aliases of
\* a row are walked in an order Python does not fix, and the first alias
\* that finds a parent decides: the possible results.
RECURSIVE _match_worker(_, _, _)
_match_worker(chunk, user_df, name_df) ==
    IF chunk = <<>> THEN {<<>>}
    ELSE LET child_id == Head(chunk)
             parents == {FirstParent(alias, name_df) :
                            alias \in user_df[child_id].aliases} \ {NO_ID}
             rest == _match_worker(Tail(chunk), user_df, name_df)
         IN  IF parents = {} THEN rest
             ELSE {<<<<child_id, parent_id>>>> \o m :
                       parent_id \in parents, m \in rest}

\* Bound of the offline matching.
NumCores == 2           \* cpu_count() of the machine

\* Mutant of Pass2Parents: the named rows are those of the table before the
\* first merge.
Pass2Parents_stale(user_df, df1) ==
    Restrict(user_df, {id \in DOMAIN user_df : HasName(user_df[id])})

\* lines 137-138: name_df_updated, the named rows of the table the first
\* merge left.
Pass2Parents(user_df, df1) ==
    Restrict(df1, {id \in DOMAIN df1 : HasName(df1[id])})

\* Mutant of Chunks: each chunk starts on the last row of the one before.
Chunks_overlap(rows, num_cores) ==
    LET chunk_size == Len(rows) \div num_cores + 1
        n == IF Len(rows) <= 1 THEN Len(rows) ELSE Len(rows) - 1
    IN  [k \in 1..n |-> SubSeq(rows, k, IF k + 1 <= Len(rows) THEN k + 1 ELSE k)]

\* lines 144-146: chunk_size = len // num_cores + 1 and the slices
\* [i : i + chunk_size] for i in range(0, len, chunk_size).
Chunks(rows, num_cores) ==
    LET chunk_size == Len(rows) \div num_cores + 1
        n == (Len(rows) + chunk_size - 1) \div chunk_size
    IN  [k \in 1..n |->
            SubSeq(rows, (k - 1) * chunk_size + 1,
                   IF k * chunk_size <= Len(rows) THEN k * chunk_size
                   ELSE Len(rows))]

\* lines 148-150: pool.starmap(_match_worker, ...) returns the result of each
\* chunk, in the order of the chunks: the possible lists of
\* [chunk, result].
RECURSIVE StarMap(_, _, _)
StarMap(chunks, user_df, name_df) ==
    IF chunks = <<>> THEN {<<>>}
    ELSE {<<[chunk |-> Head(chunks), result |-> r]>> \o rest :
              r \in _match_worker(Head(chunks), user_df, name_df),
              rest \in StarMap(Tail(chunks), user_df, name_df)}

\* lines 152-154: matches_dict_2.update(result_dict) for each result.
RECURSIVE UpdateAll(_, _)
UpdateAll(m, result_dicts) ==
    IF result_dicts = <<>> THEN m
    ELSE UpdateAll(PutAll(m, Head(result_dicts)), Tail(result_dicts))

\* 1_user_postprocessing.run, lines 94-174: the possible results
\* [user_map, to_delete, user_updated] on the user table user_df.
StageA(user_table) ==
    LET filtered == [id \in DOMAIN user_table |->
                        [user_table[id] EXCEPT
                            !.aliases = _filter_invalid_aliases(@)]]
        deleted == {id \in DOMAIN filtered :
                       /\ Strip(filtered[id].first_name) = <<>>
                       /\ Strip(filtered[id].last_name) = <<>>
                       /\ filtered[id].aliases = {}}
        user_df == Restrict(filtered, (DOMAIN filtered) \ deleted)
        name_df == {id \in DOMAIN user_df : HasName(user_df[id])}
    IN  UNION {
          LET df1 == _update_df(user_df, matches_dict_1)
              name_df_updated == Pass2Parents(user_df, df1)
              no_name == Sorted({id \in DOMAIN df1 : ~HasName(df1[id])})
          IN  {LET matches_dict_2 ==
                       UpdateAll(<<>>, [i \in 1..Len(chunk_results) |->
                                           chunk_results[i].result])
                   merged == PutAll(matches_dict_1, matches_dict_2)
               IN  [user_map |-> merged,
                    to_delete |-> Sorted(deleted) \o
                                  [i \in 1..Len(merged) |-> merged[i][1]],
                    user_updated |-> _update_df(df1, matches_dict_2),
                    matches_1 |-> matches_dict_1,
                    matches_2 |-> matches_dict_2,
                    results_2 |-> chunk_results]
               : chunk_results \in StarMap(Chunks(no_name, NumCores), df1,
                                           name_df_updated)}
          : matches_dict_1 \in Pass1(user_df, AliasToIdMap(user_df),
                                     Sorted(name_df), <<>>)}

-----------------------------------------------------------------------------
(* Offline reconciliation: 2_group_postprocessing.py, 3_email_postprocessing.py *)

\* main._write_groups_to_parquet: the group table, a row <<group_id,
\* user_ids>> for each entry of the cache, in the order they were inserted.
GroupTable(cache) ==
    LET of == [g \in {cache[k] : k \in DOMAIN cache} |->
                  CHOOSE k \in DOMAIN cache : cache[k] = g]
    IN  [i \in 1..Cardinality(DOMAIN of) |->
            <<Sorted(DOMAIN of)[i], of[Sorted(DOMAIN of)[i]]>>]

\* 2_group_postprocessing.py lines 33-47: update_user_list
update_user_list(user_ids, to_delete_set, user_remap_dict) ==
    {Get(user_remap_dict, user_id, user_id) :
        user_id \in {u \in user_ids : u \notin to_delete_set}}

\* Mutant of DedupGroups: seen_groups is never filled, so that only the empty
\* groups are marked.
RECURSIVE DedupGroups_noSeen(_, _, _)
DedupGroups_noSeen(rows, seen_groups, remap) ==
    IF rows = <<>> THEN remap
    ELSE DedupGroups_noSeen(Tail(rows), seen_groups,
             IF rows[1][2] = {} THEN Put(remap, rows[1][1], NO_ID) ELSE remap)

\* lines 55-72: the rows are walked in order; seen_groups maps a member set
\* to the first group holding it, group_remap gathers the groups to replace.
RECURSIVE DedupGroups(_, _, _)
DedupGroups(rows, seen_groups, remap) ==
    IF rows = <<>> THEN remap
    ELSE LET group_id == rows[1][1]
             user_set == rows[1][2]
         IN  IF user_set = {}
             THEN DedupGroups(Tail(rows), seen_groups, Put(remap, group_id, NO_ID))
             ELSE IF user_set \in DOMAIN seen_groups
             THEN DedupGroups(Tail(rows), seen_groups,
                      IF group_id # seen_groups[user_set]
                      THEN Put(remap, group_id, seen_groups[user_set])
                      ELSE remap)
             ELSE DedupGroups(Tail(rows),
                              DictSet(seen_groups, user_set, group_id), remap)

\* 2_group_postprocessing.run: [group_remap, groups_updated]
StageB(group_table, user_map_rows, to_delete_rows) ==
    LET updated == [i \in 1..Len(group_table) |->
                       <<group_table[i][1],
                         update_user_list(group_table[i][2],
                                          Range(to_delete_rows), user_map_rows)>>]
        remap == DedupGroups(updated, EmptyDict, <<>>)
    IN  [group_remap |-> remap,
         groups_updated |-> SelectSeq(updated, LAMBDA row : row[1] \notin Keys(remap))]

\* Mutant of DropDuplicates: every row is kept.
DropDuplicates_none(rows) == rows

\* 3_email_postprocessing.py lines 38-43: drop_duplicates(subset=[email_hash,
\* group_id]) keeps the first row of each pair.
DropDuplicates(rows) ==
    LET keep == {i \in 1..Len(rows) :
                    \A j \in 1..(i - 1) :
                        \/ rows[j].email_hash # rows[i].email_hash
                        \/ rows[j].group_id # rows[i].group_id}
    IN  [k \in 1..Cardinality(keep) |-> rows[Sorted(keep)[k]]]

\* 3_email_postprocessing.run, lines 20-43: the final email table.
StageC(email_rows, group_remap_rows, user_map_rows) ==
    LET mapped == [i \in 1..Len(email_rows) |->
                      [email_rows[i] EXCEPT
                          !.sender_id = Get(user_map_rows, @, @),
                          !.group_id = Get(group_remap_rows, @, @)]]
    IN  DropDuplicates(SelectSeq(mapped, LAMBDA row : row.group_id # NO_ID))

\* postprocessing_pipeline.run_pipeline, step 1, on the tables main.run wrote.
RunStageA ==
    /\ c_pc = "done"
    /\ users # EmptyDict
    /\ \E a \in StageA(users) :
           /\ user_map' = a.user_map
           /\ to_delete' = a.to_delete
           /\ user_updated' = a.user_updated
           /\ matches_1' = a.matches_1
           /\ matches_2' = a.matches_2
           /\ results_2' = a.results_2
    /\ c_pc' = "stage_a"
    /\ UNCHANGED <<pvars, gvars, uvars, c_emails, email_table,
                   group_remap, groups_updated, email_updated>>

\* run_pipeline, step 2.
RunStageB ==
    /\ c_pc = "stage_a"
    /\ group_cache # EmptyDict
    /\ LET b == StageB(GroupTable(group_cache), user_map, to_delete) IN
           /\ group_remap' = b.group_remap
           /\ groups_updated' = b.groups_updated
    /\ c_pc' = "stage_b"
    /\ UNCHANGED <<pvars, gvars, uvars, c_emails, email_table,
                   user_map, to_delete, user_updated, email_updated,
                   matches_1, matches_2, results_2>>

\* run_pipeline, step 3.
RunStageC ==
    /\ c_pc = "stage_b"
    /\ email_updated' = StageC(email_table, group_remap, user_map)
    /\ c_pc' = "stage_c"
    /\ UNCHANGED <<pvars, gvars, uvars, c_emails, email_table,
                   user_map, to_delete, user_updated, group_remap, groups_updated,
                   matches_1, matches_2, results_2>>

\* The run before any file is handed out, on the input files fs.
PipeInit(fs) ==
    /\ files = fs
    /\ file_cache = {}
    /\ message_cache = EmptyDict
    /\ lock = 0
    /\ next_file = 1
    /\ workers = [w \in Workers |-> IdleWorker]
    /\ results = <<>>
    /\ h_obtained = {}
    /\ h_passed = {}
    /\ h_child = {}
    /\ c_pc = "run"
    /\ c_emails = {}
    /\ email_table = <<>>
    /\ user_map = <<>>
    /\ to_delete = <<>>
    /\ user_updated = EmptyDict
    /\ group_remap = <<>>
    /\ groups_updated = <<>>
    /\ email_updated = <<>>
    /\ matches_1 = <<>>
    /\ matches_2 = <<>>
    /\ results_2 = <<>>

\* The run once the pool has parsed every file of fs and nothing has been
\* taken from it yet: each file passed the file cache and its parent was
\* recorded (two files holding the same message both were when both checks
\* of the message cache came before either insertion, pipeline.py lines
\* 65-67 and 92-93).  The results wait in the order of fs.
PoolFinished(fs) ==
    /\ files = fs
    /\ file_cache = {Md5(fs[i]) : i \in 1..Len(fs)}
    /\ message_cache =
           [h \in {Md5(fs[i].email_split[1].body) : i \in 1..Len(fs)} |-> UTC]
    /\ lock = 0
    /\ next_file = Len(fs) + 1
    /\ workers = [w \in Workers |-> IdleWorker]
    /\ results = [i \in 1..Len(fs) |->
                     Result({ParentRecord(fs[i].email_split[1])})]
    /\ h_obtained = {[hash |-> Md5(fs[i].email_split[1].body),
                      file |-> i, seg |-> 0] : i \in 1..Len(fs)}
    /\ h_passed = 1..Len(fs)
    /\ h_child = {}
    /\ c_pc = "run"
    /\ c_emails = {}
    /\ email_table = <<>>
    /\ user_map = <<>>
    /\ to_delete = <<>>
    /\ user_updated = EmptyDict
    /\ group_remap = <<>>
    /\ groups_updated = <<>>
    /\ email_updated = <<>>
    /\ matches_1 = <<>>
    /\ matches_2 = <<>>
    /\ results_2 = <<>>

\* The pool is terminated when run() is left by an exception.
PoolAlive == c_pc # "crashed"

-----------------------------------------------------------------------------
\* A run on any NumFiles of the thread files.
Init ==
    /\ GroupInit /\ UserInit
    /\ \E fs \in [1..NumFiles -> FileTexts] : PipeInit(fs)

\* Bound of the runs through the offline stages.
MaxOfflineFiles == 3    \* number of input files

\* The files of such a run: no file twice (main.py lines 53-56 let a text
\* pass once).
OfflineInputs ==
    UNION {{fs \in [1..n -> OfflineTexts] :
               \A i, j \in 1..n : fs[i] = fs[j] => i = j}
           : n \in 1..MaxOfflineFiles}

OfflineInit ==
    /\ GroupInit /\ UserInit
    /\ \E fs \in OfflineInputs : PoolFinished(fs)

\* A resolver used on its own: no input files.
ResolverInit == GroupInit /\ UserInit /\ PipeInit(<<>>)

\* The group resolver on its own.
GroupNext == GetGroupId /\ UNCHANGED <<uvars, pvars, cvars, ovars>>

SpecGroup == ResolverInit /\ [][GroupNext]_vars

\* The user resolver on its own.
UserNext ==
    \/ GetUserId /\ UNCHANGED <<gvars, pvars, cvars, ovars>>
    \/ GetUserIdFromSet /\ UNCHANGED <<gvars, pvars, cvars, ovars>>

SpecUser == ResolverInit /\ [][UserNext]_vars

\* Bound of the short runs of the user resolver.
MaxPairCalls == 2       \* number of resolver calls in a short run

\* The user resolver on its own, for a call and the call that follows it.
UserPairNext ==
    \/ /\ u_ncalls < MaxPairCalls
       /\ GetUserId /\ UNCHANGED <<gvars, pvars, cvars, ovars>>
    \/ /\ u_ncalls < MaxPairCalls
       /\ GetUserIdFromSet /\ UNCHANGED <<gvars, pvars, cvars, ovars>>

SpecUserPair == ResolverInit /\ [][UserPairNext]_vars

\* The parallel run: the workers and the coordinating loop.
Next ==
    \/ \E w \in Workers : PoolAlive /\ TakeTask(w) /\ UNCHANGED <<cvars, gvars, uvars, ovars>>
    \/ \E w \in Workers : PoolAlive /\ NextFile(w) /\ UNCHANGED <<cvars, gvars, uvars, ovars>>
    \/ \E w \in Workers : PoolAlive /\ Acquire(w) /\ UNCHANGED <<cvars, gvars, uvars, ovars>>
    \/ \E w \in Workers : PoolAlive /\ FileCheck(w) /\ UNCHANGED <<cvars, gvars, uvars, ovars>>
    \/ \E w \in Workers : PoolAlive /\ ParentCheck(w) /\ UNCHANGED <<cvars, gvars, uvars, ovars>>
    \/ \E w \in Workers : PoolAlive /\ ParentInsert(w) /\ UNCHANGED <<cvars, gvars, uvars, ovars>>
    \/ \E w \in Workers : PoolAlive /\ ChildCheck(w) /\ UNCHANGED <<cvars, gvars, uvars, ovars>>
    \/ TakeResult
    \/ HandleEmail
    \/ Flush
    \/ RunStageA
    \/ RunStageB
    \/ RunStageC

Spec == Init /\ [][Next]_vars

\* One step of worker process w.
WorkerStep(w) ==
    /\ \/ TakeTask(w) \/ NextFile(w) \/ Acquire(w) \/ FileCheck(w)
       \/ ParentCheck(w) \/ ParentInsert(w) \/ ChildCheck(w)
    /\ UNCHANGED <<cvars, gvars, uvars, ovars>>

\* The pool on its own: the workers never wait for the coordinating loop,
\* which takes their results from an unbounded queue.
PoolNext ==
    \/ \E w \in Workers : TakeTask(w) /\ UNCHANGED <<cvars, gvars, uvars, ovars>>
    \/ \E w \in Workers : NextFile(w) /\ UNCHANGED <<cvars, gvars, uvars, ovars>>
    \/ \E w \in Workers : Acquire(w) /\ UNCHANGED <<cvars, gvars, uvars, ovars>>
    \/ \E w \in Workers : FileCheck(w) /\ UNCHANGED <<cvars, gvars, uvars, ovars>>
    \/ \E w \in Workers : ParentCheck(w) /\ UNCHANGED <<cvars, gvars, uvars, ovars>>
    \/ \E w \in Workers : ParentInsert(w) /\ UNCHANGED <<cvars, gvars, uvars, ovars>>
    \/ \E w \in Workers : ChildCheck(w) /\ UNCHANGED <<cvars, gvars, uvars, ovars>>

\* The operating system runs every worker process that can take a step.
SpecPool ==
    Init /\ [][PoolNext]_vars /\ \A w \in Workers : WF_vars(WorkerStep(w))

\* The coordinating loop on the results of a finished pool, and the offline
\* stages on the tables it wrote.
OfflineNext ==
    \/ TakeResult
    \/ HandleEmail
    \/ Flush
    \/ RunStageA
    \/ RunStageB
    \/ RunStageC

SpecOffline == OfflineInit /\ [][OfflineNext]_vars

-----------------------------------------------------------------------------
(* Claims about the Group Identity Resolver *)

\* C4: after any sequence of get_group_id calls, two calls whose arguments
\* have the same set of member ids once -1 is filtered out returned the same
\* group id, whatever the order of the members and whatever calls lay between.
C4_SameSetSameId ==
    \A p, q \in g_returned : p[1] = q[1] => p[2] = q[2]

\* C4 witness: the same member set was offered in two different orders, with
\* another group created in between.
C4_Witness ==
    /\ g_first = [users |-> <<0, 1>>, ret |-> 0]
    /\ g_last = [users |-> <<1, 0>>, ret |-> 0]
    /\ g_ncalls = 3
    /\ group_counter = 2

C6_CacheInjective ==
    /\ \A s, t \in DOMAIN group_cache :
           group_cache[s] = group_cache[t] => s = t
    /\ {group_cache[s] : s \in DOMAIN group_cache} = 0..(group_counter - 1)

C6_IdsStable ==
    \A s \in DOMAIN group_cache :
        s \in DOMAIN group_cache' /\ group_cache'[s] = group_cache[s]

C6_InjectiveAndStable == [](C6_CacheInjective) /\ [][C6_IdsStable]_vars

\* C6 witness: three distinct member sets hold the ids 0, 1 and 2.
C6_Witness ==
    /\ Cardinality(DOMAIN group_cache) = 3
    /\ group_counter = 3

-----------------------------------------------------------------------------
(* Claims about the User Identity Resolver *)

\* The last two calls resolved the same single alias, which was in the alias
\* table before the first of them.
TwiceInARow ==
    /\ u_prev.kind # "none"
    /\ Cardinality(u_prev.aliases) = 1
    /\ u_last.aliases = u_prev.aliases
    /\ u_prev.known

\* C7 (as claimed): resolving an alias that is already in the alias table
\* twice in a row returns the same id both times, and the second call
\* creates no profile and allocates no id.
C7_ResolveTwiceSameId ==
    TwiceInARow =>
        /\ ~u_prev.raised /\ ~u_last.raised
        /\ u_last.ret = u_prev.ret
        /\ ~u_last.created
        /\ ~u_last.allocated

\* The part of C7 that the resolver keeps: it holds of every alias that is
\* not blank.
C7_NonBlankResolveTwiceSameId ==
    (TwiceInARow /\ \A a \in u_last.aliases : Strip(a) # <<>>) =>
        /\ ~u_prev.raised /\ ~u_last.raised
        /\ u_last.ret = u_prev.ret
        /\ ~u_last.created
        /\ ~u_last.allocated

\* C8 (as claimed): once an alias has been resolved to person id p, every
\* later resolve of that alias returns p.
C8_AliasKeepsId ==
    \A p, q \in u_resolved : p[1] = q[1] => p[2] = q[2]

\* C9 (as claimed): every alias of every profile maps back to that profile in
\* the alias table.
C9_AliasesResolveBack ==
    \A id \in DOMAIN users :
        \A a \in users[id].aliases :
            a \in DOMAIN alias_lookup /\ alias_lookup[a] = id

\* C10 (as claimed): every profile's generated aliases are among its aliases.
C10_GeneratedInAliases ==
    \A id \in DOMAIN users :
        users[id].generated_aliases \subseteq users[id].aliases

\* The strings of the scenario of C11.
Name_john == <<"j","o","h","n">>
Name_doe == <<"d","o","e">>
A_john_doe == Name_john \o <<".">> \o Name_doe \o AT_ENRON      \* john.doe@enron.com

\* C11 (as claimed): resolving {"j.doe@enron.com", "Doe, John"} on an empty
\* resolver yields one person id whose profile is named john doe and holds
\* john.doe@enron.com and jdoe@enron.com among its aliases, whichever of the
\* two aliases is examined first.
C11_ScenarioOneProfile ==
    (/\ u_ncalls = 1
     /\ u_last.kind = "get_user_id_from_set"
     /\ u_last.aliases = {A_j_doe, A_DoeJohn}) =>
        /\ ~u_last.raised
        /\ DOMAIN users = {u_last.ret}
        /\ users[u_last.ret].first_name = Name_john
        /\ users[u_last.ret].last_name = Name_doe
        /\ {A_john_doe, A_jdoe} \subseteq users[u_last.ret].aliases

\* The argument of the last call is invalid input: a blank alias handed to
\* get_user_id, or a set handed to get_user_id_from_set that holds no alias
\* once empty strings are left out and the rest is lower-cased and trimmed.
InvalidInput(call) ==
    \/ /\ call.kind = "get_user_id"
       /\ \A a \in call.aliases : Strip(a) = <<>>
    \/ /\ call.kind = "get_user_id_from_set"
       /\ {Strip(Lower(a)) : a \in call.aliases \ {<<>>}} = {}

\* C12: a call on invalid input raises and leaves the profile table, the
\* alias table and the id counter unchanged.
C12_InvalidInputRejected ==
    [][(u_ncalls' # u_ncalls /\ InvalidInput(u_last')) =>
          /\ u_last'.raised
          /\ users' = users
          /\ alias_lookup' = alias_lookup
          /\ user_counter' = user_counter
      ]_vars

\* C12 witness: get_user_id created a profile, and then
\* get_user_id_from_set was called on the set of the empty string and raised.
C12_Witness ==
    /\ u_prev.kind = "get_user_id" /\ u_prev.aliases = {A_jdoe}
    /\ u_prev.created
    /\ u_last.kind = "get_user_id_from_set" /\ u_last.aliases = {A_empty}
    /\ u_last.raised
    /\ user_counter = 1
    /\ DOMAIN users = {0}

-----------------------------------------------------------------------------
(* Claims about the Message Dedup Cache and the parallel run *)

\* C1 (as claimed): for every content hash, at most one parse attempt
\* (parent or child, in any file) obtains a message record; every other
\* attempt with that hash is answered as a duplicate.
C1_OneRecordPerHash ==
    \A a, b \in h_obtained : a.hash = b.hash => a = b

\* C13 (as claimed): no exception raised while one file is handled aborts
\* the batch: run() is never left by an exception, so the coordinator goes
\* on to consume the results of all remaining files.
C13_BatchNeverAborts == c_pc # "crashed"

\* C18: of two input files with the same canonical text at most one passes
\* the file-dedup check and is parsed, under every interleaving; the hash of
\* a file that passed is in the file cache from the step of its check on.
C18_OneFilePassesDedup ==
    /\ \A i, j \in h_passed : files[i] = files[j] => i = j
    /\ \A i \in h_passed : Md5(files[i]) \in file_cache

\* C18 witness: the two files have the same text, both were handled by the
\* pool, and one of them passed the check.
C18_Witness ==
    /\ files[1] = files[2]
    /\ files[1].readable
    /\ next_file > Len(files)
    /\ \A w \in Workers : workers[w].pc = "idle"
    /\ Cardinality(h_passed) = 1

\* C19 (as claimed): when a thread text is split, every segment after the
\* parent, the last one included, is handed to child extraction.
C19_EveryChildSubmitted ==
    \A w \in Workers :
        workers[w].pc = "parent_lock" =>
            workers[w].children = Tail(files[workers[w].file].email_split)

\* C2: once the message cache holds a timezone for a hash, the value stored
\* under that hash never changes (and the hash is never removed).
C2_CachedTimezoneStable ==
    [][\A h \in DOMAIN message_cache :
           h \in DOMAIN message_cache' /\ message_cache'[h] = message_cache[h]
      ]_vars

\* C2 witness: two files whose parents have the same body and dates with
\* different UTC offsets have both stored a timezone under the body's hash.
C2_Witness ==
    \E a, b \in h_obtained :
        /\ a.hash = b.hash /\ a.seg = 0 /\ b.seg = 0 /\ a.file # b.file
        /\ files[a.file].email_split[1].date.offset
               # files[b.file].email_split[1].date.offset
        /\ a.hash \in DOMAIN message_cache

\* C3 (as claimed): when two different files hold the same parent body, the
\* final email table holds exactly one row with that body's hash.
SameParentBody ==
    /\ files[1] # files[2]
    /\ files[1].email_split[1].body = files[2].email_split[1].body
    /\ files[1].email_split[1].body # NONE

C3_OneRowPerSharedParent ==
    (c_pc = "stage_c" /\ SameParentBody) =>
        Cardinality({i \in 1..Len(email_updated) :
            email_updated[i].email_hash = Md5(files[1].email_split[1].body)}) = 1


-----------------------------------------------------------------------------
(* Claims about the offline stages *)

AfterStageA == c_pc \in {"stage_a", "stage_b", "stage_c"}
AfterStageB == c_pc \in {"stage_b", "stage_c"}

\* The profiles of the user table with no name and no alias of valid length.
NoEvidence ==
    {id \in DOMAIN users :
        /\ Strip(users[id].first_name) = <<>>
        /\ Strip(users[id].last_name) = <<>>
        /\ \A alias \in users[id].aliases :
               Len(alias) > (IF Contains(alias, <<"@">>) THEN 60 ELSE 35)}

\* The members the group group_id of the group table ends with: those of the
\* group it is remapped to, none when it is remapped to -1.
FinalMembers(group_id) ==
    UNION {groups_updated[i][2] :
              i \in {k \in 1..Len(groups_updated) :
                         groups_updated[k][1] = Get(group_remap, group_id, group_id)}}

\* C14 (as claimed): after Stage B every group of the group table ends with
\* the members it had, those without name and valid alias dropped and every
\* merged child replaced by its Stage-A parent.
C14_ChildReplacedByParent ==
    AfterStageB =>
        \A i \in 1..Len(GroupTable(group_cache)) :
            FinalMembers(GroupTable(group_cache)[i][1]) =
                {Get(user_map, m, m) :
                    m \in GroupTable(group_cache)[i][2] \ NoEvidence}

\* C15 (as claimed): the delete list Stage A writes holds exactly the
\* profiles with no name and no valid alias, and no profile recorded as a
\* child in the child-to-parent map.
C15_DeleteListExact ==
    AfterStageA =>
        /\ Range(to_delete) = NoEvidence
        /\ Keys(user_map) \cap Range(to_delete) = {}

\* The aliases of profile id that the validity filter is claimed to keep.
Surviving(id) ==
    {alias \in users[id].aliases :
        \/ Contains(alias, <<"@">>) /\ Len(alias) <= 60
        \/ ~Contains(alias, <<"@">>) /\ Len(alias) <= 35}

\* C16: in the user table Stage A writes, a profile keeps exactly those of the
\* aliases it had that are at most 60 characters long when they hold "@" and
\* at most 35 otherwise; and a profile with a name or a surviving alias that
\* was not merged into another is not in the delete list.
C16_FilterBounds ==
    AfterStageA =>
        \A id \in DOMAIN users :
            /\ id \in DOMAIN user_updated =>
                   \A alias \in users[id].aliases :
                       alias \in user_updated[id].aliases <=> alias \in Surviving(id)
            /\ ( /\ \/ Strip(users[id].first_name) # <<>>
                    \/ Strip(users[id].last_name) # <<>>
                    \/ Surviving(id) # {}
                 /\ id \notin Keys(user_map) )
               => id \notin Range(to_delete)

\* C16 witness: Stage A ran on a user table with aliases of 35, 36, 60 and 61
\* characters: a profile holding the names of 35 and 36 characters kept the
\* shorter one alone, the address of 60 characters was kept, and the profile
\* known by the address of 61 characters alone is in the delete list.
C16_Witness ==
    /\ c_pc = "stage_a"
    /\ \E id \in DOMAIN user_updated :
           /\ {X35, X36} \subseteq users[id].aliases
           /\ user_updated[id].aliases = {X35}
    /\ \E id \in DOMAIN user_updated : user_updated[id].aliases = {E60}
    /\ \E id \in Range(to_delete) : users[id].aliases = {E61}

\* C17: no profile that pass 1 of Stage A recorded as a merged child is the
\* parent of a match of pass 2; the parents of pass 2 are named profiles that
\* pass 1 left in the table.
C17_ChildNeverParent ==
    \A i \in 1..Len(matches_2) :
        /\ matches_2[i][2] \notin Keys(matches_1)
        /\ HasName(users[matches_2[i][2]])

\* C17 witness: pass 1 merged a named profile whose name is found in an alias
\* of a nameless profile, and pass 2 has left that nameless profile alone.
C17_Witness ==
    /\ c_pc = "stage_a"
    /\ \E child \in Keys(matches_1), id \in DOMAIN user_updated :
           /\ HasName(users[child])
           /\ ~HasName(users[id])
           /\ id \notin Keys(matches_2)
           /\ \E alias \in users[id].aliases :
                  Pattern2(alias, users[child].first_name, users[child].last_name)

\* C20: the email table Stage C writes has no row of group -1, no two rows
\* with the same email hash and group id, and no row whose group id is not
\* the id of a row of groups_updated.
C20_FinalEmailTable ==
    c_pc = "stage_c" =>
        /\ \A i \in 1..Len(email_updated) : email_updated[i].group_id # NO_ID
        /\ \A i, j \in 1..Len(email_updated) :
               ( /\ email_updated[i].email_hash = email_updated[j].email_hash
                 /\ email_updated[i].group_id = email_updated[j].group_id )
               => i = j
        /\ \A i \in 1..Len(email_updated) :
               \E k \in 1..Len(groups_updated) :
                   groups_updated[k][1] = email_updated[i].group_id

\* C20 witness: Stage C ran on an email table with two rows of one message
\* whose groups Stage B collapsed into one, and one of the two rows is left.
C20_Witness ==
    /\ c_pc = "stage_c"
    /\ \E i, j \in 1..Len(email_table) :
           /\ i < j
           /\ email_table[i].email_hash = email_table[j].email_hash
           /\ email_table[i].group_id # email_table[j].group_id
           /\ Get(group_remap, email_table[j].group_id, NO_ID)
                  = email_table[i].group_id
           /\ Cardinality({k \in 1..Len(email_updated) :
                  email_updated[k].email_hash = email_table[i].email_hash}) = 1

\* The updated member set of row k of the group table.
UpdatedSet(k) ==
    update_user_list(GroupTable(group_cache)[k][2], Range(to_delete), user_map)

\* C21: after Stage B the rows of groups_updated hold pairwise distinct,
\* non-empty member sets; a group whose updated set is empty is remapped to
\* -1, a group whose updated set is that of an earlier group is remapped to
\* the first group with that set, no other group is remapped, and no remap
\* target is itself remapped.
C21_GroupsDeduplicated ==
    AfterStageB =>
        LET table == GroupTable(group_cache)
            first(k) == Min({m \in 1..Len(table) : UpdatedSet(m) = UpdatedSet(k)})
        IN  /\ \A i, j \in 1..Len(groups_updated) :
                   /\ groups_updated[i][2] # {}
                   /\ groups_updated[i][2] = groups_updated[j][2] => i = j
            /\ \A k \in 1..Len(table) :
                   IF UpdatedSet(k) = {}
                   THEN Get(group_remap, table[k][1], table[k][1]) = NO_ID
                   ELSE IF first(k) # k
                   THEN Get(group_remap, table[k][1], table[k][1]) = table[first(k)][1]
                   ELSE table[k][1] \notin Keys(group_remap)
            /\ \A i \in 1..Len(group_remap) :
                   group_remap[i][2] \notin Keys(group_remap)

\* C21 witness: Stage B ran on three groups: one survives, one with the same
\* updated set is remapped to it, and one is emptied and remapped to -1.
C21_Witness ==
    /\ c_pc = "stage_b"
    /\ Len(GroupTable(group_cache)) = 3
    /\ Len(groups_updated) = 1
    /\ \E i, j \in 1..Len(group_remap) :
           /\ group_remap[i][2] = groups_updated[1][1]
           /\ group_remap[j][2] = NO_ID

-----------------------------------------------------------------------------
(* Further claims about the Message Dedup Cache *)

\* Every file was handed out and every worker has returned.
PoolDone ==
    /\ next_file > Len(files)
    /\ \A w \in Workers : workers[w].pc = "idle"

\* C22: for every hash, at most one child parse attempt of the whole run goes
\* past the cache check, and only such an attempt yields a child record.
C22_OneChildPassesCheck ==
    /\ \A p, q \in h_child : p.hash = q.hash => p = q
    /\ \A o \in h_obtained : o.seg > 0 => o \in h_child

\* C22 witness: the threads T3 and T5, which both quote b3, were parsed to the
\* end, and one child attempt on b3 went past the check.
C22_Witness ==
    /\ PoolDone
    /\ \E i, j \in 1..Len(files) : files[i] = T3 /\ files[j] = T5
    /\ Cardinality({p \in h_child : p.hash = Md5("b3")}) = 1

\* The hashes of the records the workers returned to the coordinating loop.
ReturnedHashes ==
    UNION {{e.email_hash : e \in results[k].emails} : k \in 1..Len(results)}
    \cup {e.email_hash : e \in c_emails}
    \cup {email_table[k].email_hash : k \in 1..Len(email_table)}

\* C23 (as claimed): when the pool has finished, every hash of the message
\* cache is the hash of a record that a worker returned.
C23_CachedHashWasReturned ==
    PoolDone => DOMAIN message_cache \subseteq ReturnedHashes

-----------------------------------------------------------------------------
(* Further claims about the User Identity Resolver *)

\* The profiles the aliases of a call are registered to before the call.
MatchedBy(call) ==
    {alias_lookup[Normalize(a)] :
        a \in {b \in call.aliases \ {<<>>} : Normalize(b) \in DOMAIN alias_lookup}}

\* C24: a call of get_user_id_from_set one of whose aliases is registered to a
\* profile with 4 generated aliases returns the id of such a profile and
\* leaves the profile table, the alias table and the counter as they were.
C24_FullProfileUntouched ==
    [][( /\ u_ncalls' # u_ncalls
         /\ u_last'.kind = "get_user_id_from_set"
         /\ \E id \in MatchedBy(u_last') :
                Cardinality(users[id].generated_aliases) = 4 )
       => /\ ~u_last'.raised
          /\ u_last'.ret \in MatchedBy(u_last')
          /\ Cardinality(users[u_last'.ret].generated_aliases) = 4
          /\ users' = users
          /\ alias_lookup' = alias_lookup
          /\ user_counter' = user_counter
      ]_vars

\* C24 witness: a profile with 4 generated aliases was created from
\* "doe, john q"; then that alias was resolved together with j.doe@enron.com,
\* which stays unknown.
C24_Witness ==
    /\ u_prev.kind = "get_user_id" /\ u_prev.aliases = {A_doe_john_q}
    /\ u_prev.created
    /\ u_last.kind = "get_user_id_from_set"
    /\ u_last.aliases = {A_doe_john_q, A_j_doe}
    /\ u_last.ret = u_prev.ret
    /\ Cardinality(users[u_last.ret].generated_aliases) = 4
    /\ A_j_doe \notin DOMAIN alias_lookup

\* The names the aliases of a call parse to.
NamesParsed(call) ==
    {info \in {ParsedInfo(a) : a \in CleanedAliases(call.aliases)} :
        info.first_name # <<>> /\ info.last_name # <<>>}

\* The aliases _generate_aliases derives from an initial.
InitialAliases(first_name, last_name, initial) ==
    {first_name \o <<".">> \o initial \o <<".">> \o last_name \o AT_ENRON,
     initial \o <<".", ".">> \o last_name \o AT_ENRON}

\* C25 (as claimed): when get_user_id_from_set returns a profile that had a
\* name and fewer than 4 generated aliases, and every name its aliases parse
\* to comes with an initial, the generated aliases of the profile then hold
\* the aliases made with the initial.
C25_InitialEnriched ==
    [][( /\ u_ncalls' # u_ncalls
         /\ u_last'.kind = "get_user_id_from_set"
         /\ ~u_last'.raised
         /\ u_last'.ret \in DOMAIN users
         /\ HasName(users[u_last'.ret])
         /\ Cardinality(users[u_last'.ret].generated_aliases) < 4
         /\ NamesParsed(u_last') # {}
         /\ \A info \in NamesParsed(u_last') : info.initial # <<>> )
       => \E info \in NamesParsed(u_last') :
              InitialAliases(users'[u_last'.ret].first_name,
                             users'[u_last'.ret].last_name, info.initial)
                  \subseteq users'[u_last'.ret].generated_aliases
      ]_vars

\* C26: a resolve call that returns and matched no known id creates exactly
\* one profile, under the id the counter held; a call that matched a known
\* id creates none; no call removes a profile; and the profile ids are
\* exactly 0..n-1 for the n profiles created.
C26_FreshIds ==
    [][ /\ DOMAIN users \subseteq DOMAIN users'
        /\ DOMAIN users' = 0..(user_counter' - 1)
        /\ (u_ncalls' # u_ncalls /\ MatchedBy(u_last') # {})
               => DOMAIN users' = DOMAIN users
        /\ (u_ncalls' # u_ncalls /\ MatchedBy(u_last') = {} /\ ~u_last'.raised)
               => /\ user_counter \notin DOMAIN users
                  /\ DOMAIN users' = DOMAIN users \cup {user_counter}
                  /\ u_last'.ret = user_counter
                  /\ user_counter' = user_counter + 1
      ]_vars

\* Two calls that matched nothing created profiles 0 and 1.
C26_Witness ==
    /\ u_prev.kind = "get_user_id_from_set" /\ u_prev.created /\ u_prev.ret = 0
    /\ u_last.kind = "get_user_id" /\ u_last.created /\ u_last.ret = 1
    /\ DOMAIN users = {0, 1}
    /\ user_counter = 2

CanonicalAliases(first_name, last_name) ==
    {first_name \o <<".">> \o last_name \o AT_ENRON,
     <<first_name[1]>> \o last_name \o AT_ENRON}

\* The initials parsed, with the name of profile p, from the aliases of a call.
InitialsFor(p, call) ==
    {info.initial : info \in {i \in NamesParsed(call) :
                                  /\ i.first_name = p.first_name
                                  /\ i.last_name = p.last_name}}

\* C28: after every resolve call the generated aliases of a profile are
\* empty exactly when its first or last name is empty; otherwise they are
\* the 2 canonical aliases, plus the 2 aliases of an initial exactly when
\* the call that gave the profile its name parsed an initial (0, 2 or 4
\* aliases).
C28_GeneratedAliasShape ==
    [][\A id \in DOMAIN users' :
           LET p == users'[id]
               named == id \notin DOMAIN users \/ ~HasName(users[id])
           IN  /\ Cardinality(p.generated_aliases) \in {0, 2, 4}
               /\ (p.generated_aliases = {}) <=> ~HasName(p)
               /\ HasName(p) =>
                      /\ CanonicalAliases(p.first_name, p.last_name)
                             \subseteq p.generated_aliases
                      /\ named =>
                             \E initial \in InitialsFor(p, u_last') :
                                 p.generated_aliases =
                                     CanonicalAliases(p.first_name, p.last_name)
                                     \cup (IF initial = <<>> THEN {}
                                           ELSE InitialAliases(p.first_name,
                                                    p.last_name, initial))
                      /\ ~named => p.generated_aliases = users[id].generated_aliases
      ]_vars

\* A profile created without a name was given the name john doe and the
\* initial q by a later call, and holds 4 generated aliases.
C28_Witness ==
    /\ u_prev.kind = "get_user_id" /\ u_prev.aliases = {A_jdoe} /\ u_prev.created
    /\ u_last.kind = "get_user_id_from_set"
    /\ u_last.aliases = {A_jdoe, A_doe_john_q}
    /\ u_last.ret = u_prev.ret /\ ~u_last.created
    /\ HasName(users[u_last.ret])
    /\ Cardinality(users[u_last.ret].generated_aliases) = 4

\* C29 (as claimed): the empty string is never a key of the alias table nor
\* a member of the alias set of a profile, and a call whose aliases are all
\* whitespace is rejected.
C29_NoEmptyAlias ==
    /\ <<>> \notin DOMAIN alias_lookup
    /\ \A id \in DOMAIN users : <<>> \notin users[id].aliases
    /\ (u_last.kind # "none" /\ u_last.aliases \subseteq {A_blank, A_empty})
           => u_last.raised

(* Further claims about the offline reconciliation *)

\* C30 (as claimed): every parent of the child-to-parent map Stage A writes
\* is a row of user_updated, no id is the parent of one entry and the child
\* of another, and no id is mapped to itself.
C30_ParentsSurvive ==
    AfterStageA =>
        \A i \in 1..Len(user_map) :
            /\ user_map[i][2] \in DOMAIN user_updated
            /\ user_map[i][2] \notin Keys(user_map)
            /\ user_map[i][1] # user_map[i][2]

\* C31: after both passes of Stage A every alias of valid length of a profile
\* that was not queued for deletion for want of evidence is an alias of some
\* row of user_updated, also when the merges form a chain.
C31_NoAliasLost ==
    AfterStageA =>
        \A id \in (DOMAIN users) \ NoEvidence :
            \A alias \in Surviving(id) :
                \E row \in DOMAIN user_updated : alias \in user_updated[row].aliases

\* C31 witness: Stage A merged a profile into a parent that it merged into a
\* third profile, and an alias only the first profile held is in the table.
C31_Witness ==
    /\ c_pc = "stage_a"
    /\ \E i, j \in 1..Len(user_map) :
           /\ user_map[i][2] = user_map[j][1]
           /\ \E alias \in Surviving(user_map[i][1]) :
                  /\ \A id \in (DOMAIN users) \ {user_map[i][1]} :
                         alias \notin users[id].aliases
                  /\ alias \in user_updated[user_map[j][2]].aliases

\* C32 (as claimed): after Stage C every sender_id of the final email table
\* is -1 or the id of a row of user_updated.
C32_SendersSurvive ==
    c_pc = "stage_c" =>
        \A i \in 1..Len(email_updated) :
            \/ email_updated[i].sender_id = NO_ID
            \/ email_updated[i].sender_id \in DOMAIN user_updated

\* The nameless rows of the table pass 1 of Stage A left, in row order.
NamelessAfterPass1 ==
    Sorted({id \in DOMAIN users :
               /\ id \notin NoEvidence
               /\ id \notin Keys(matches_1)
               /\ ~HasName(users[id])})

\* The dict a list of dicts gives when they are merged in the order given.
RECURSIVE MergedInOrder(_, _)
MergedInOrder(dicts, order) ==
    IF order = <<>> THEN <<>>
    ELSE PutAll(MergedInOrder(dicts, SubSeq(order, 1, Len(order) - 1)),
                dicts[order[Len(order)]])

\* C33: in pass 2 of Stage A the chunks are consecutive slices of the
\* nameless rows that do not overlap and cover every row; the result of a
\* chunk has children of that chunk only and named profiles as parents; so
\* the merged result holds the same pairs whatever the order of the merge.
C33_ChunksPartition ==
    AfterStageA =>
        LET n == Len(results_2)
            dicts == [i \in 1..n |-> results_2[i].result]
            concat[i \in 0..n] ==
                IF i = 0 THEN <<>> ELSE concat[i - 1] \o results_2[i].chunk
        IN  /\ concat[n] = NamelessAfterPass1
            /\ \A i \in 1..n : results_2[i].chunk # <<>>
            /\ \A i \in 1..n :
                   \A k \in 1..Len(results_2[i].result) :
                       /\ results_2[i].result[k][1] \in Range(results_2[i].chunk)
                       /\ HasName(users[results_2[i].result[k][2]])
                       /\ results_2[i].result[k][2] \notin Keys(matches_1)
            /\ \A order \in Orders(1..n) :
                   Range(MergedInOrder(dicts, order)) = Range(matches_2)

\* C33 witness: pass 2 ran on two chunks and both reported a merge.
C33_Witness ==
    /\ c_pc = "stage_a"
    /\ Len(results_2) = 2
    /\ results_2[1].result # <<>>
    /\ results_2[2].result # <<>>

-----------------------------------------------------------------------------
(* Further claims about the worker pool *)

WaitsForLock(w) ==
    workers[w].pc \in {"file_lock", "parent_lock", "insert_lock", "child_lock"}

InCriticalSection(w) ==
    workers[w].pc \in {"file_cs", "parent_cs", "insert_cs", "child_cs"}

-----------------------------------------------------------------------------
(* Further claims about the message records *)

\* The hash of the parent message of the thread worker w is processing.
ParentHashOf(w) == Md5(files[workers[w].file].email_split[1].body)

\* C35 (as claimed): every record a worker made from a quoted message of a
\* thread carries the hash of the thread's parent message as parent_hash.
C35_ChildCarriesParentHash ==
    \A w \in Workers :
        workers[w].file # 0 =>
            \A e \in workers[w].emails :
                e.email_hash # ParentHashOf(w) =>
                    /\ e.parent_hash \notin {NONE, ""}
                    /\ e.parent_hash = ParentHashOf(w)

\* The parent segment of the thread worker w is processing.
ParentSegOf(w) == files[workers[w].file].email_split[1]

\* C36 (as claimed): the timezone a worker holds for the children of a
\* parent it has parsed, and stores in the message cache under the parent's
\* hash, is the UTC offset written in the parent's Date header.
C36_ParentOffsetHandedOn ==
    \A w \in Workers :
        /\ workers[w].pc \in {"insert_lock", "insert_cs"}
               => workers[w].parent_tz = ParentSegOf(w).date.offset
        /\ ( /\ workers[w].file # 0
             /\ \E e \in workers[w].emails : e.email_hash = ParentHashOf(w) )
               => /\ workers[w].parent_tz = ParentSegOf(w).date.offset
                  /\ message_cache[ParentHashOf(w)] \in
                         {files[f].email_split[1].date.offset :
                              f \in {g \in 1..Len(files) :
                                         files[g].email_split[1].body =
                                             ParentSegOf(w).body}}

\* C37 (as claimed): the norm_date of every record of a parent or a quoted
\* message is 12:00 UTC of the day of the record's date (dates are counted
\* in hours), so that the records of one day have the same norm_date.
C37_NormDateAtNoon ==
    \A w \in Workers :
        \A e \in workers[w].emails :
            /\ e.norm_date.tz = UTC
            /\ e.norm_date.inst % 24 = 12
            /\ e.norm_date.inst \div 24 = e.date.inst \div 24


=============================================================================
